---- MODULE Spec2Model ----
(***************************************************************************)
(* Payment automation core of LURK: the payment engine (idempotent         *)
(* submission, scheduled queue, webhooks), the sliding-window rate limiter *)
(* and the retrying bank API client.                                       *)
(*                                                                         *)
(* The Redis client, the SQL session and the HTTP client are modelled by   *)
(* the operations the code invokes on them (GET/SETEX, ZADD/ZRANGEBYSCORE/ *)
(* ZREM, MULTI/EXEC pipeline, INSERT/UPDATE of the changed columns); every *)
(* awaited store or gateway call is one atomic step of the calling task,   *)
(* and tasks of several worker processes interleave between those steps.   *)
(***************************************************************************)
EXTENDS Integers, Sequences, FiniteSets, TLC

\* ------------------------------------------------------------------ bounds
NumTasks == 2          \* concurrently running engine calls / drain passes
NumCards == 1          \* credit cards (one user owns them all)
MaxTime == 1           \* clock ticks the engine clock may advance
TicksPerSec == 2       \* clock resolution: ticks per second
MaxSchedules == 1      \* PaymentSchedule rows created
MaxRlCalls == 6        \* rate limiter calls in the limiter specification
MaxRlErrors == 1       \* of them, calls during which the store failed
MaxJumps == 1          \* whole-window clock jumps in the limiter specification
NumDue == 2            \* obligations in the queue when a drain pass starts
MaxDrainTime == 4      \* latest tick at which that pass starts
MaxSyncs == 7          \* sync_card calls within the minute
MaxSeconds == 1         \* whole seconds the clock may pass between triggers
MaxRetry == 3          \* largest retry_attempts tried on the API client

Tasks == 1..NumTasks
Cards == 1..NumCards

\* ------------------------------------------------------- program constants
PaymentMaxAttempts == 10      \* check_payment_attempts: max_attempts
PaymentWindowMinutes == 1     \* check_payment_attempts: window_minutes
DefaultMaxAttempts == 5       \* is_rate_limited: max_attempts default
IdempotencyTtlHours == 24     \* setex payment:{key} ttl
DefaultRetryAfter == 60       \* Retry-After default of the API client

VARIABLES
    now,        \* wall clock, in ticks
    cards,      \* credit_cards table: card id -> row
    payments,   \* payments table: sequence of rows, id = index
    schedules,  \* payment_schedules table: sequence of rows, id = index
    idem,       \* Redis keys payment:{idempotency_key}
    mandates,   \* Redis keys upi_mandate:{card_id}
    window,     \* Redis sorted sets rate_limit:{key}
    queue,      \* Redis sorted set payment_scheduled
    gateway,    \* transactions the payment gateway has accepted
    audit,      \* events handed to the audit log
    call,       \* per task: the running process_minimum_payment call
    drain,      \* per task: the running process_scheduled_payments pass
    cancelOp,   \* the running cancel_scheduled_payment / disable request
    rl,         \* limiter specification: call history of one key
    api,        \* API client specification: the running _make_api_request
    hook,       \* the last webhook request and the answer it was given
    monitor     \* card monitor: the bank_rate:{bank} keys, the requests sent
                \* to each bank in the current minute, the last sync_card

vars == <<now, cards, payments, schedules, idem, mandates, window, queue,
          gateway, audit, call, drain, cancelOp, rl, api, hook, monitor>>

\* ------------------------------------------------------------ conversions
\* int(datetime.timestamp()): whole seconds, fraction dropped
IntTimestamp(t) == t \div TicksPerSec

\* str(card.id) and the UUID object of a UUID(as_uuid=True) column are
\* different Python values: str == UUID is False.
StrId(c) == <<"str", c>>
UuidId(c) == <<"uuid", c>>

\* timedelta -> ticks
MinutesToTicks(m) == m * 60 * TicksPerSec
HoursToTicks(h) == h * 3600 * TicksPerSec

Max(S) == CHOOSE x \in S : \A y \in S : y <= x

\* ------------------------------------------------------------ data shapes
\* credit_cards rows the engine reads (models/credit_card.py:80-99)
CardProfiles ==
    { [auto_payment_enabled |-> TRUE, payment_preference |-> "minimum_due",
       minimum_due |-> 300, total_due |-> 900, custom_payment_amount |-> 0],
      [auto_payment_enabled |-> TRUE, payment_preference |-> "full_amount",
       minimum_due |-> 300, total_due |-> 900, custom_payment_amount |-> 0],
      [auto_payment_enabled |-> TRUE, payment_preference |-> "custom",
       minimum_due |-> 300, total_due |-> 900, custom_payment_amount |-> 500],
      [auto_payment_enabled |-> TRUE, payment_preference |-> "custom",
       minimum_due |-> 300, total_due |-> 900, custom_payment_amount |-> 0],
      [auto_payment_enabled |-> TRUE, payment_preference |-> "minimum_due",
       minimum_due |-> 0, total_due |-> 0, custom_payment_amount |-> 0] }

NoKey == <<"none", 0, 0>>
ExplicitKey == <<"explicit", 0, 0>>

NoResult == [success |-> FALSE, code |-> "none", payment_id |-> 0, status |-> ""]
Failure(code) == [success |-> FALSE, code |-> code, payment_id |-> 0, status |-> ""]

\* outcome: what _make_razorpay_request met on the /payments request
IdleCall == [pc |-> "idle", card |-> 0, key |-> NoKey, amount |-> 0, pid |-> 0,
             tx |-> 0, outcome |-> "", trigger |-> "", res |-> NoResult]

\* ----------------------------------------------------------- rate limiter
\* A window entry is <<tick, n>>: the member str(time.time()); n tells apart
\* different clock readings inside one tick.  Two calls that read the same
\* float produce the same member.
Stamp(win, t, fresh) ==
    LET same == {e \in win : e[1] = t}
    IN  IF same = {} THEN <<t, 0>>
        ELSE LET m == Max({e[2] : e \in same})
             IN  IF fresh THEN <<t, m + 1>> ELSE <<t, m>>

\* mutant: nothing is ever pruned
Pruned_KeepsAll(win, t, windowTicks) == win

\* pipe.zremrangebyscore(rate_key, 0, window_start)
Pruned(win, t, windowTicks) == {e \in win : e[1] > t - windowTicks}

\* results[1] of the pipeline: ZCARD, executed before ZADD
CurrentAttempts(win, t, windowTicks) == Cardinality(Pruned(win, t, windowTicks))

\* mutant: the call prunes and counts but does not add its own attempt
WindowAfter_PruneOnly(win, t, windowTicks, fresh) == Pruned(win, t, windowTicks)

\* the sorted set after the pipeline ran
WindowAfter(win, t, windowTicks, fresh) ==
    Pruned(win, t, windowTicks) \cup {Stamp(Pruned(win, t, windowTicks), t, fresh)}

\* return current_attempts > max_attempts
is_rate_limited(win, t, max_attempts, windowTicks) ==
    CurrentAttempts(win, t, windowTicks) > max_attempts

\* check_payment_attempts: 10 per minute on key payment:{user_id}
check_payment_attempts(win, t) ==
    is_rate_limited(win, t, PaymentMaxAttempts, MinutesToTicks(PaymentWindowMinutes))

\* --------------------------------------------- process_minimum_payment
calculate_payment_amount(card) ==
    IF card.payment_preference = "full_amount" THEN card.total_due
    ELSE IF card.payment_preference = "custom" /\ card.custom_payment_amount # 0
         THEN card.custom_payment_amount
    ELSE card.minimum_due

\* idempotency_key or f"payment_{card.id}_{int(now.timestamp())}"
IdempotencyKey(c, supplied, t) ==
    IF supplied = NoKey THEN <<"payment", c, IntTimestamp(t)>> ELSE supplied

\* redis GET payment:{key}: the live record, if any
IdemRecords(k) == {r \in idem : r.key = k /\ r.expires > now}

Return(t, res) == call' = [call EXCEPT ![t].pc = "done", ![t].res = res]

\* mutant: only a negative amount is refused
NoPaymentRequired_Negative(amount) == amount < 0

\* if payment_amount <= 0   (line 203)
NoPaymentRequired(amount) == amount <= 0

\* lines 185-208: the key, the idempotency lookup, the amount.  Enter is the
\* record of the call after its first awaited store access.
Entered(c, supplied, trig) ==
    [IdleCall EXCEPT !.card = c, !.key = IdempotencyKey(c, supplied, now),
                     !.trigger = trig]

Enter(t, c, supplied, trig) ==
    LET e == Entered(c, supplied, trig)
        done(res) == call' = [call EXCEPT ![t] = [e EXCEPT !.pc = "done", !.res = res]]
    IN  \/ done(Failure("SYSTEM_ERROR"))                \* store raised
        \/ /\ IdemRecords(e.key) # {}
           /\ \E r \in IdemRecords(e.key) :
                 done([success |-> TRUE, code |-> "ok",
                       payment_id |-> r.payment_id, status |-> "duplicate"])
        \/ /\ IdemRecords(e.key) = {}
           /\ LET amt == calculate_payment_amount(cards[c])
              IN  IF NoPaymentRequired(amt)
                  THEN done(Failure("NO_PAYMENT_REQUIRED"))
                  ELSE call' = [call EXCEPT ![t] =
                                   [e EXCEPT !.pc = "rate", !.amount = amt]]

\* a caller of process_minimum_payment outside the drain loop
pmp_CheckIdempotency(t, c, supplied, trig) ==
    /\ call[t].pc = "idle"
    /\ drain[t].pc = "idle"
    /\ Enter(t, c, supplied, trig)
    /\ UNCHANGED <<now, cards, payments, schedules, idem, mandates, window,
                   queue, gateway, audit, drain, cancelOp, rl, api, hook, monitor>>

\* lines 210-216: rate limit on payment:{user.id}.  (The limiter's own failure
\* path, which allows the call, is rl_CallFailed below.)
pmp_CheckRateLimit(t) ==
    /\ call[t].pc = "rate"
    /\ window' = [window EXCEPT !["payment"] =
           WindowAfter(@, now, MinutesToTicks(PaymentWindowMinutes), TRUE)]
    /\ IF check_payment_attempts(window["payment"], now)
       THEN Return(t, Failure("RATE_LIMIT_EXCEEDED"))
       ELSE call' = [call EXCEPT ![t].pc = "insert"]
    /\ UNCHANGED <<now, cards, payments, schedules, idem, mandates,
                   queue, gateway, audit, drain, cancelOp, rl, api, hook, monitor>>

\* lines 218-238: INSERT of the payment row (no unique constraint on
\* idempotency_key: models/payment.py:108 declares index=True only)
NewPayment(t) ==
    [id |-> Len(payments) + 1, card |-> call[t].card, amount |-> call[t].amount,
     status |-> "pending", transaction_id |-> 0, idempotency_key |-> call[t].key,
     error_code |-> "", error_message |-> "", triggered_by |-> call[t].trigger]

pmp_CreatePaymentRecord(t) ==
    /\ call[t].pc = "insert"
    /\ payments' = Append(payments, NewPayment(t))
    /\ call' = [call EXCEPT ![t].pc = "mandate", ![t].pid = Len(payments) + 1]
    /\ UNCHANGED <<now, cards, schedules, idem, mandates, window,
                   queue, gateway, audit, drain, cancelOp, rl, api, hook, monitor>>

\* lines 240-244: GET upi_mandate:{card.id}
pmp_GetMandate(t) ==
    /\ call[t].pc = "mandate"
    /\ \/ Return(t, Failure("SYSTEM_ERROR"))            \* store raised
       \/ /\ mandates[call[t].card] # "none"
          /\ call' = [call EXCEPT ![t].pc = "submit"]
       \/ /\ mandates[call[t].card] = "none"
          /\ call' = [call EXCEPT ![t].pc = "mkmandate"]
    /\ UNCHANGED <<now, cards, payments, schedules, idem, mandates, window,
                   queue, gateway, audit, drain, cancelOp, rl, api, hook, monitor>>

\* lines 245-258 with create_upi_autopay_mandate (lines 63-173)
pmp_CreateMandate(t) ==
    /\ call[t].pc = "mkmandate"
    /\ window' = [window EXCEPT !["payment"] =
           WindowAfter(@, now, MinutesToTicks(PaymentWindowMinutes), TRUE)]
    /\ IF check_payment_attempts(window["payment"], now)
       THEN /\ Return(t, Failure("MANDATE_REQUIRED"))
            /\ UNCHANGED mandates
       ELSE \/ /\ mandates' = [mandates EXCEPT ![call[t].card] = "created"]
               /\ call' = [call EXCEPT ![t].pc = "submit"]
            \/ /\ Return(t, Failure("MANDATE_REQUIRED"))
               /\ UNCHANGED mandates
    /\ UNCHANGED <<now, cards, payments, schedules, idem,
                   queue, gateway, audit, drain, cancelOp, rl, api, hook, monitor>>

\* lines 279-284 with _make_razorpay_request (lines 611-636): one request,
\* None for every non-200 answer ("rejected") and for every exception
\* ("timeout"); the mandate read at lines 241-258 is used whatever its status
pmp_SubmitToGateway(t) ==
    /\ call[t].pc = "submit"
    /\ \E outcome \in {"accepted", "rejected", "timeout"} :
          IF outcome = "accepted"
          THEN /\ gateway' = gateway \cup
                     {[id |-> Cardinality(gateway) + 1, payment_id |-> call[t].pid,
                       amount |-> call[t].amount]}
               /\ call' = [call EXCEPT ![t].pc = "respond",
                                       ![t].outcome = outcome,
                                       ![t].tx = Cardinality(gateway) + 1]
          ELSE /\ UNCHANGED gateway
               /\ call' = [call EXCEPT ![t].pc = "respond",
                                       ![t].outcome = outcome, ![t].tx = 0]
    /\ UNCHANGED <<now, cards, payments, schedules, idem, mandates, window,
                   queue, audit, drain, cancelOp, rl, api, hook, monitor>>

\* mutant: the gateway's reference is not saved in the row
WithGatewayDetails_Unsaved(row, tx) == row

\* payment.transaction_id = razorpay_response["id"] ... db.commit()
\* (lines 299-304)
WithGatewayDetails(row, tx) == [row EXCEPT !.transaction_id = tx]

\* lines 286-304: the orchestrator's write after the gateway answered;
\* the session UPDATEs the columns it assigned, whatever the row holds
pmp_RecordGatewayResult(t) ==
    /\ call[t].pc = "respond"
    /\ IF call[t].tx = 0
       THEN /\ payments' = [payments EXCEPT ![call[t].pid].status = "failed",
                   ![call[t].pid].error_message =
                       "Failed to create payment gateway transaction"]
            /\ Return(t, Failure("PAYMENT_GATEWAY_ERROR"))
       ELSE /\ payments' = [payments EXCEPT
                   ![call[t].pid] = WithGatewayDetails(@, call[t].tx)]
            /\ call' = [call EXCEPT ![t].pc = "cache"]
    /\ UNCHANGED <<now, cards, schedules, idem, mandates, window,
                   queue, gateway, audit, drain, cancelOp, rl, api, hook, monitor>>

\* lines 306-340: SETEX payment:{key}, then the result
pmp_StoreIdempotency(t) ==
    /\ call[t].pc = "cache"
    /\ \/ /\ Return(t, Failure("SYSTEM_ERROR"))         \* store raised
          /\ UNCHANGED idem
       \/ /\ idem' = {r \in idem : r.key # call[t].key} \cup
                 {[key |-> call[t].key, payment_id |-> call[t].pid,
                   transaction_id |-> call[t].tx, amount |-> call[t].amount,
                   expires |-> now + HoursToTicks(IdempotencyTtlHours)]}
          /\ Return(t, [success |-> TRUE, code |-> "ok",
                        payment_id |-> call[t].pid, status |-> "created"])
    /\ UNCHANGED <<now, cards, payments, schedules, mandates, window,
                   queue, gateway, audit, drain, cancelOp, rl, api, hook, monitor>>

pmp_Step(t) ==
    \/ pmp_CheckRateLimit(t)
    \/ pmp_CreatePaymentRecord(t)
    \/ pmp_GetMandate(t)
    \/ pmp_CreateMandate(t)
    \/ pmp_SubmitToGateway(t)
    \/ pmp_RecordGatewayResult(t)
    \/ pmp_StoreIdempotency(t)

\* ------------------------------------------------------- scheduled queue
ScheduledAmounts == {500}

\* schedule_data of schedule_payment (lines 388-395), the sorted-set member
Member(sid, c, when, amt) ==
    [schedule_id |-> sid, card_id |-> StrId(c), scheduled_date |-> when,
     scheduled_amount |-> amt]

\* redis ZADD payment_scheduled {member: score}
Zadd(q, m, score) == {e \in q : e.member # m} \cup {[member |-> m, score |-> score]}

\* redis ZREM payment_scheduled members
Zrem(q, ms) == {e \in q : e.member \notin ms}

\* the order ZRANGEBYSCORE answers in: by score, then by member
Before(a, b) ==
    \/ a.score < b.score
    \/ a.score = b.score /\ a.member.schedule_id <= b.member.schedule_id

RECURSIVE InOrder(_)
InOrder(S) ==
    IF S = {} THEN << >>
    ELSE LET first == CHOOSE a \in S : \A b \in S : Before(a, b)
         IN  <<first.member>> \o InOrder(S \ {first})

\* mutant: only the entries scored with the second asked for
Zrangebyscore_LastSecond(q, max) == InOrder({e \in q : e.score = max})

\* redis ZRANGEBYSCORE payment_scheduled 0 max
Zrangebyscore(q, max) == InOrder({e \in q : e.score >= 0 /\ e.score <= max})

\* POST /schedule (api/payments.py:368-455) with PaymentEngine.schedule_payment
\* (lines 359-437).  The row is created with the column defaults: the engine
\* passes neither is_recurring nor recurrence_type.
schedule_payment(c, when, amt, is_recurring) ==
    /\ Len(schedules) < MaxSchedules
    /\ when > now                       \* "Scheduled date must be in the future"
    /\ amt > 0
    /\ schedules' = Append(schedules,
           [id |-> Len(schedules) + 1, card_id |-> UuidId(c), scheduled_date |-> when,
            scheduled_amount |-> amt, status |-> "scheduled",
            is_recurring |-> FALSE, payment_id |-> 0])
    /\ queue' = Zadd(queue, Member(Len(schedules) + 1, c, when, amt),
                     IntTimestamp(when))
    /\ audit' = audit \cup {[type |-> "PAYMENT_SCHEDULED",
                             id |-> Len(schedules) + 1, flag |-> is_recurring]}
    /\ UNCHANGED <<now, cards, payments, idem, mandates, window,
                   gateway, call, drain, cancelOp, rl, api, hook, monitor>>

NoResults == [processed |-> 0, successful |-> 0, failed |-> 0, skipped |-> 0]

\* read is due_schedules, the answer of ZRANGEBYSCORE; due is the part of it
\* the loop has not reached yet
IdleDrain == [pc |-> "idle", now |-> 0, read |-> << >>, due |-> << >>,
              results |-> NoResults, payments_processed |-> << >>]

\* mutant: an entry that failed ends the pass
NextEntries_StopOnFailure(due, ok) == IF ok THEN Tail(due) ELSE << >>

\* the for loop over due_schedules with its inner try/except (lines 459-508):
\* "continue" after a skip and after an exception, the next iteration after
\* an attempt whatever its result
NextEntries(due, ok) == Tail(due)

\* lines 441-457: read the clock, read the due members (no removal)
drain_Start(t) ==
    /\ drain[t].pc = "idle"
    /\ call[t].pc = "idle"
    /\ \/ drain' = [drain EXCEPT ![t] = [IdleDrain EXCEPT !.pc = "loop", !.now = now,
                        !.read = Zrangebyscore(queue, IntTimestamp(now)),
                        !.due = Zrangebyscore(queue, IntTimestamp(now))]]
       \/ drain' = [drain EXCEPT ![t] = [IdleDrain EXCEPT !.pc = "error"]]
    /\ UNCHANGED <<now, cards, payments, schedules, idem, mandates, window,
                   queue, gateway, audit, call, cancelOp, rl, api, hook, monitor>>

CardOf(m) == m.card_id[2]

\* mutant: only the card's existence is tested
InvalidSchedule_ExistenceOnly(m) == CardOf(m) \notin Cards

\* if not card or not user or not card.auto_payment_enabled   (line 475)
InvalidSchedule(m) == CardOf(m) \notin Cards \/ ~cards[CardOf(m)].auto_payment_enabled

\* lines 459-484: one iteration up to the call of process_minimum_payment
drain_Entry(t) ==
    /\ drain[t].pc = "loop"
    /\ drain[t].due # << >>
    /\ LET m == Head(drain[t].due)
       IN  IF m.scheduled_date > drain[t].now
           THEN /\ drain' = [drain EXCEPT ![t].due = NextEntries(@, TRUE),
                                 ![t].results.skipped = @ + 1]
                /\ UNCHANGED <<queue, call>>
           ELSE IF InvalidSchedule(m)
           THEN \/ /\ queue' = Zrem(queue, {m})
                   /\ drain' = [drain EXCEPT ![t].due = NextEntries(@, TRUE),
                                    ![t].results.skipped = @ + 1]
                   /\ UNCHANGED call
                \/ /\ drain' = [drain EXCEPT                       \* ZREM raised
                                    ![t].due = NextEntries(@, FALSE),
                                    ![t].results.failed = @ + 1]
                   /\ UNCHANGED <<queue, call>>
           ELSE /\ Enter(t, CardOf(m), NoKey, "scheduled")
                /\ drain' = [drain EXCEPT ![t].pc = "call"]
                /\ UNCHANGED queue
    /\ UNCHANGED <<now, cards, payments, schedules, idem, mandates, window,
                   gateway, audit, cancelOp, rl, api, hook, monitor>>

\* lines 486-508: counters, payment_info, removal from the queue.
\* payment_id is not part of payment_info: it records which row this
\* invocation created, for the properties below.
drain_AfterPayment(t) ==
    /\ drain[t].pc = "call"
    /\ call[t].pc = "done"
    /\ LET m == Head(drain[t].due)
           res == call[t].res
           counted == [drain[t].results EXCEPT
                          !.processed = @ + 1,
                          !.successful = IF res.success THEN @ + 1 ELSE @,
                          !.failed = IF res.success THEN @ ELSE @ + 1]
           info == [member |-> m, amount |-> m.scheduled_amount,
                    success |-> res.success, error |-> res.code,
                    payment_id |-> call[t].pid]
       IN  \/ /\ queue' = Zrem(queue, {m})
              /\ drain' = [drain EXCEPT ![t].pc = "loop",
                               ![t].due = NextEntries(@, res.success),
                               ![t].results = counted,
                               ![t].payments_processed = Append(@, info)]
           \/ /\ UNCHANGED queue                        \* ZREM raised
              /\ drain' = [drain EXCEPT ![t].pc = "loop",
                               ![t].due = NextEntries(@, FALSE),
                               ![t].results = [counted EXCEPT !.failed = @ + 1],
                               ![t].payments_processed = Append(@, info)]
    /\ call' = [call EXCEPT ![t] = IdleCall]
    /\ UNCHANGED <<now, cards, payments, schedules, idem, mandates, window,
                   gateway, audit, cancelOp, rl, api, hook, monitor>>

\* lines 510-516: the pass returns its results
drain_Finish(t) ==
    /\ drain[t].pc = "loop"
    /\ drain[t].due = << >>
    /\ drain' = [drain EXCEPT ![t].pc = "done"]
    /\ UNCHANGED <<now, cards, payments, schedules, idem, mandates, window,
                   queue, gateway, audit, call, cancelOp, rl, api, hook, monitor>>

\* GET /scheduled (api/payments.py:457-478): the rows still stored as
\* 'scheduled'
get_scheduled_payments == {i \in 1..Len(schedules) : schedules[i].status = "scheduled"}

process_scheduled_payments(t) ==
    \/ drain_Start(t)
    \/ drain_Entry(t)
    \/ drain_AfterPayment(t)
    \/ drain_Finish(t)

\* ----------------------------------------------------------- cancellation
\* completed: the DELETE requests answered "Scheduled payment cancelled
\* successfully", each <<schedule, time of the answer, fired>>; fired tells
\* whether a drain pass had executed the obligation when the request came.
\* removed: the obligations cancel_scheduled_payments took out of the queue
\* and counted in cancelled_count, each with whether a drain pass was holding
\* it, read as due and not yet reached, at that moment.
IdleCancel == [pc |-> "idle", kind |-> "", card_id |-> <<"", 0>>, schedule |-> 0,
               fired |-> FALSE, to_remove |-> {}, completed |-> {}, removed |-> {}]

\* a drain pass has executed obligation sid and removed it from the queue
Executed(sid) ==
    \E t \in Tasks : \E i \in 1..Len(drain[t].payments_processed) :
        /\ drain[t].payments_processed[i].member.schedule_id = sid
        /\ \A e \in queue : e.member.schedule_id # sid

\* DELETE /scheduled/{schedule_id} (api/payments.py:486-513): the row is marked
\* cancelled, then the engine is called with schedule.card_id, the UUID object
cancel_scheduled_payment(sid) ==
    /\ cancelOp.pc = "idle"
    /\ sid \in 1..Len(schedules)
    /\ schedules' = [schedules EXCEPT ![sid].status = "cancelled"]
    /\ cancelOp' = [IdleCancel EXCEPT !.pc = "zrange", !.kind = "cancel",
                        !.card_id = schedules[sid].card_id, !.schedule = sid,
                        !.fired = Executed(sid),
                        !.completed = cancelOp.completed,
                        !.removed = cancelOp.removed]
    /\ UNCHANGED <<now, cards, payments, idem, mandates, window, queue,
                   gateway, audit, call, drain, rl, api, hook, monitor>>

\* POST /{card_id}/disable-automation (api/cards.py:548-569): the engine is
\* called with the path parameter, a str
disable_card_automation(c) ==
    /\ cancelOp.pc = "idle"
    /\ cards[c].auto_payment_enabled
    /\ cancelOp' = [IdleCancel EXCEPT !.pc = "zrange", !.kind = "disable",
                        !.card_id = StrId(c),
                        !.completed = cancelOp.completed,
                        !.removed = cancelOp.removed]
    /\ UNCHANGED <<now, cards, payments, schedules, idem, mandates, window, queue,
                   gateway, audit, call, drain, rl, api, hook, monitor>>

\* cancel_scheduled_payments lines 529-543: ZRANGE 0 -1 and the comparison
\* schedule_data.get("card_id") == card_id
MatchingMembers(q, card_id) == {e.member : e \in {x \in q : x.member.card_id = card_id}}

cancel_Zrange ==
    /\ cancelOp.pc = "zrange"
    /\ \/ cancelOp' = [cancelOp EXCEPT !.pc = "zrem",
                           !.to_remove = MatchingMembers(queue, cancelOp.card_id)]
       \/ cancelOp' = [cancelOp EXCEPT !.pc = "zrem", !.to_remove = {}] \* raised
    /\ UNCHANGED <<now, cards, payments, schedules, idem, mandates, window, queue,
                   gateway, audit, call, drain, rl, api, hook, monitor>>

\* a drain pass holds member m in the list it read and has not reached it
HeldByDrain(m) ==
    \E t \in Tasks :
        /\ drain[t].pc = "loop"
        /\ \E i \in 1..Len(drain[t].due) : drain[t].due[i] = m

\* cancel_scheduled_payments lines 545-553: ZREM of the matching members and
\* the answer.  DELETE /scheduled/{id} is finished with it; disable-automation
\* still has its own commit to make.
cancel_Zrem ==
    /\ cancelOp.pc = "zrem"
    /\ \/ /\ queue' = Zrem(queue, cancelOp.to_remove)
          /\ cancelOp' = [cancelOp EXCEPT
                 !.pc = IF cancelOp.kind = "disable" THEN "commit" ELSE "idle",
                 !.to_remove = {},
                 !.completed = IF cancelOp.kind = "cancel"
                               THEN @ \cup {<<cancelOp.schedule, now, cancelOp.fired>>}
                               ELSE @,
                 !.removed = @ \cup
                     {[sid |-> m.schedule_id, raced |-> HeldByDrain(m)] :
                         m \in {x \in cancelOp.to_remove :
                                   \E e \in queue : e.member = x}}]
       \/ /\ cancelOp.to_remove # {}                     \* ZREM raised
          /\ UNCHANGED queue
          /\ cancelOp' = [cancelOp EXCEPT
                 !.pc = IF cancelOp.kind = "disable" THEN "commit" ELSE "idle",
                 !.to_remove = {},
                 !.completed = IF cancelOp.kind = "cancel"
                               THEN @ \cup {<<cancelOp.schedule, now, cancelOp.fired>>}
                               ELSE @]
    /\ UNCHANGED <<now, cards, payments, schedules, idem, mandates, window,
                   gateway, audit, call, drain, rl, api, hook, monitor>>

\* api/cards.py:571-575: auto_payment_enabled = False, commit
cancel_Commit ==
    /\ cancelOp.pc = "commit"
    /\ cards' = [cards EXCEPT ![cancelOp.card_id[2]].auto_payment_enabled = FALSE]
    /\ cancelOp' = [cancelOp EXCEPT !.pc = "idle"]
    /\ UNCHANGED <<now, payments, schedules, idem, mandates, window, queue,
                   gateway, audit, call, drain, rl, api, hook, monitor>>

\* ------------------------------------------------------------------ clock
Tick ==
    /\ now < MaxTime
    /\ now' = now + 1
    /\ UNCHANGED <<cards, payments, schedules, idem, mandates, window, queue,
                   gateway, audit, call, drain, cancelOp, rl, api, hook, monitor>>

\* a whole second passes
NextSecond ==
    /\ now + TicksPerSec <= MaxSeconds * TicksPerSec
    /\ now' = now + TicksPerSec
    /\ UNCHANGED <<cards, payments, schedules, idem, mandates, window, queue,
                   gateway, audit, call, drain, cancelOp, rl, api, hook, monitor>>

\* ---------------------------------------------------------------- webhook
\* handle_webhook (lines 562-607) for a payment.captured event that carries a
\* valid signature: _handle_payment_captured (lines 724-759) reads the notes
\* and writes the audit event; it has no database session.
handle_payment_captured(tx) ==
    /\ tx \in gateway
    /\ audit' = audit \cup {[type |-> "PAYMENT_CAPTURED", id |-> tx.payment_id,
                             flag |-> TRUE]}
    /\ UNCHANGED <<now, cards, payments, schedules, idem, mandates, window, queue,
                   gateway, call, drain, cancelOp, rl, api, hook, monitor>>

\* A webhook request: the raw body <<form, event, payment_id>> as the sender
\* wrote it (form "compact" or "spaced": with or without whitespace between
\* the JSON tokens; payment_id is notes.payment_id, 0 when absent) and the
\* X-Razorpay-Signature header.
WebhookSecret == "RAZORPAY_WEBHOOK_SECRET"
NoSignature == <<"none">>
Hmac(key, body) == <<"hmac", key, body>>

\* json.dumps(webhook_data, separators=(',', ':')): the parsed body written
\* out again, compactly, whatever the bytes received were
Dumps(raw) == <<"compact", raw[2], raw[3]>>

\* mutant: any signature that is present verifies
verify_webhook_signature_AnyPresent(raw, signature) == signature # NoSignature

\* _verify_webhook_signature (lines 644-666); hashlib.hmac(key, msg, digest)
\* is read as the keyed digest it is meant to compute
verify_webhook_signature(raw, signature) ==
    signature # NoSignature /\ signature = Hmac(WebhookSecret, Dumps(raw))

\* self.webhook_handlers (lines 52-59) and an event type without a handler
HandledEvents == {"payment.captured", "payment.failed", "refund.processed",
                  "subscription.charged", "mandate.created", "mandate.revoked"}
EventTypes == {"payment.captured", "payment.failed", "mandate.revoked",
               "order.paid", ""}

NoHook == [raw |-> <<"", "", 0>>, signature |-> NoSignature, success |-> FALSE,
           handler |-> ""]

\* handle_webhook (lines 562-607); handler names the event handler that ran
handle_webhook(raw, signature) ==
    LET answer(ok, h) == hook' = [raw |-> raw, signature |-> signature,
                                  success |-> ok, handler |-> h]
    IN  /\ IF ~verify_webhook_signature(raw, signature)
           THEN answer(FALSE, "") /\ UNCHANGED audit
           ELSE IF raw[2] = ""
           THEN answer(FALSE, "") /\ UNCHANGED audit
           ELSE IF raw[2] = "payment.captured"
           THEN /\ audit' = audit \cup {[type |-> "PAYMENT_CAPTURED",
                                         id |-> raw[3], flag |-> TRUE]}
                /\ answer(TRUE, raw[2])
           ELSE IF raw[2] = "payment.failed"
           THEN /\ audit' = audit \cup {[type |-> "PAYMENT_FAILED_WEBHOOK",
                                         id |-> raw[3], flag |-> TRUE]}
                /\ answer(TRUE, raw[2])
           ELSE IF raw[2] \in HandledEvents
           THEN answer(TRUE, raw[2]) /\ UNCHANGED audit
           ELSE answer(TRUE, "") /\ UNCHANGED audit
        /\ UNCHANGED <<now, cards, payments, schedules, idem, mandates, window,
                       queue, gateway, call, drain, cancelOp, rl, api, monitor>>

\* the signatures a sender may attach to raw: none, the gateway's over the
\* bytes it sent, the gateway's over the compact form, one made with another
\* key, the gateway's over another event
Signatures(raw) ==
    { NoSignature, Hmac(WebhookSecret, raw), Hmac(WebhookSecret, Dumps(raw)),
      Hmac("other", Dumps(raw)),
      Hmac(WebhookSecret, <<"compact", "order.paid", raw[3]>>) }

\* ------------------------------------------------- payment endpoints
\* POST /{payment_id}/cancel (api/payments.py:312-364).  The guard names
\* PaymentStatus.SCHEDULED, which the enum does not define; it is taken as
\* the membership test it spells, and no row is ever in that status.
cancel_payment(pid) ==
    /\ pid \in 1..Len(payments)
    /\ payments[pid].status \in {"pending", "scheduled"}
    /\ payments' = [payments EXCEPT ![pid].status = "cancelled"]
    /\ UNCHANGED <<now, cards, schedules, idem, mandates, window, queue,
                   gateway, audit, call, drain, cancelOp, rl, api, hook, monitor>>

UpdatedAmounts == {700}

\* PUT /{payment_id} (api/payments.py:253-310): amount, payment_method and
\* description may change; a status in the request body is ignored
update_payment(pid, amount) ==
    /\ pid \in 1..Len(payments)
    /\ payments[pid].status \in {"pending", "scheduled"}
    /\ payments[pid].amount # amount
    /\ payments' = [payments EXCEPT ![pid].amount = amount]
    /\ UNCHANGED <<now, cards, schedules, idem, mandates, window, queue,
                   gateway, audit, call, drain, cancelOp, rl, api, hook, monitor>>

\* ------------------------------------------ RateLimiter.is_rate_limited
\* One key; rl.max_attempts is the max_attempts every call of the run passes,
\* window_minutes is 1.
RlWindowMinutes == PaymentWindowMinutes

\* prior: ZCARD of the key after the prune, the count the call observed
rl_Call(fresh) ==
    /\ Len(rl.calls) < MaxRlCalls
    /\ LET W == MinutesToTicks(RlWindowMinutes)
       IN  /\ window' = [window EXCEPT !["key"] = WindowAfter(@, now, W, fresh)]
           /\ rl' = [rl EXCEPT !.calls = Append(@,
                  [at |-> now, stamp |-> Stamp(Pruned(window["key"], now, W), now, fresh),
                   error |-> FALSE, prior |-> CurrentAttempts(window["key"], now, W),
                   limited |-> is_rate_limited(window["key"], now, rl.max_attempts, W)])]
    /\ UNCHANGED <<now, cards, payments, schedules, idem, mandates, queue,
                   gateway, audit, call, drain, cancelOp, api, hook, monitor>>

\* mutant: the error is ignored and the count decides
OnStoreError_CountDecides(current_attempts, max_attempts) ==
    current_attempts > max_attempts

\* except (redis.RedisError, asyncio.TimeoutError) / except Exception:
\* return False   (lines 67-73)
OnStoreError(current_attempts, max_attempts) == FALSE

\* lines 57-73: the store raised, or the pipeline did not answer within
\* max_sleep_time.  A pipeline that timed out is still running in its
\* executor thread and may be applied (applied); one that raised is not.
rl_CallFailed(applied) ==
    /\ Len(rl.calls) < MaxRlCalls
    /\ Cardinality({i \in 1..Len(rl.calls) : rl.calls[i].error}) < MaxRlErrors
    /\ LET W == MinutesToTicks(RlWindowMinutes)
           st == IF applied THEN Stamp(Pruned(window["key"], now, W), now, TRUE)
                 ELSE <<now, 0>>
       IN  /\ window' = IF applied
                        THEN [window EXCEPT !["key"] = WindowAfter(@, now, W, TRUE)]
                        ELSE window
           /\ rl' = [rl EXCEPT !.calls = Append(@,
                  [at |-> now, stamp |-> st, error |-> TRUE,
                   prior |-> CurrentAttempts(window["key"], now, W),
                   limited |-> OnStoreError(CurrentAttempts(window["key"], now, W),
                                            rl.max_attempts)])]
    /\ UNCHANGED <<now, cards, payments, schedules, idem, mandates, queue,
                   gateway, audit, call, drain, cancelOp, api, hook, monitor>>

\* the clock passes a whole window
rl_Jump ==
    /\ rl.jumps < MaxJumps
    /\ now' = now + MinutesToTicks(RlWindowMinutes)
    /\ rl' = [rl EXCEPT !.jumps = @ + 1]
    /\ UNCHANGED <<cards, payments, schedules, idem, mandates, window, queue,
                   gateway, audit, call, drain, cancelOp, api, hook, monitor>>

\* ------------------------------- CardMonitorService._make_api_request
Responses == {"200", "200-bad-json", "429", "429-no-header", "429-bad-header",
              "401", "403", "500", "timeout", "network"}

\* mutant: 403 is classified with the other errors and retried
IsAuthError_Only401(r) == r = "401"

\* elif response.status in [401, 403]   (line 419)
IsAuthError(r) == r \in {"401", "403"}

\* mutant: the loop gives up one attempt early
LastAttempt_OneEarly(attempt, retry_attempts) == attempt >= retry_attempts - 2

\* attempt == retry_attempts - 1   (lines 426, 431, 438)
LastAttempt(attempt, retry_attempts) == attempt = retry_attempts - 1

\* return None after a 401/403   (lines 419-422)
TerminalResult == "none"

RetryAfterSeconds == 5      \* a Retry-After header value the server may send

RECURSIVE Pow2(_)
Pow2(n) == IF n = 0 THEN 1 ELSE 2 * Pow2(n - 1)

IdleApi == [pc |-> "idle", retry_attempts |-> 0, attempt |-> 0, sent |-> 0,
            responses |-> << >>, sleeps |-> << >>, result |-> "none"]

\* for attempt in range(retry_attempts): ... return None   (lines 408, 442)
NextIteration(a) ==
    IF a.attempt + 1 < a.retry_attempts
    THEN [a EXCEPT !.attempt = @ + 1]
    ELSE [a EXCEPT !.attempt = @ + 1, !.pc = "done", !.result = "none"]

api_Start(n) ==
    /\ api.pc = "idle"
    /\ api' = IF n > 0
              THEN [IdleApi EXCEPT !.pc = "loop", !.retry_attempts = n]
              ELSE [IdleApi EXCEPT !.pc = "done", !.retry_attempts = n]
    /\ UNCHANGED <<now, cards, payments, schedules, idem, mandates, window, queue,
                   gateway, audit, call, drain, cancelOp, rl, hook, monitor>>

\* the delay slept after this response, 0 when the function goes on at once
SleepAfter(r, attempt, retry_attempts) ==
    IF r = "200" \/ IsAuthError(r) THEN 0
    ELSE IF r = "429" THEN RetryAfterSeconds
    ELSE IF r = "429-no-header" THEN DefaultRetryAfter
    ELSE IF LastAttempt(attempt, retry_attempts) THEN 0
    ELSE Pow2(attempt)

\* one iteration of the loop (lines 409-440)
api_Attempt(r) ==
    /\ api.pc = "loop"
    /\ LET a == [api EXCEPT !.sent = @ + 1, !.responses = Append(@, r),
                     !.sleeps = Append(@, SleepAfter(r, api.attempt, api.retry_attempts))]
       IN  api' =
             IF r = "200" THEN [a EXCEPT !.pc = "done", !.result = "data"]
             ELSE IF r \in {"429", "429-no-header"} THEN NextIteration(a)
             ELSE IF IsAuthError(r)
                  THEN [a EXCEPT !.pc = "done", !.result = TerminalResult]
             ELSE IF LastAttempt(api.attempt, api.retry_attempts)
                  THEN [a EXCEPT !.pc = "done", !.result = "none"]
             ELSE NextIteration(a)
    /\ UNCHANGED <<now, cards, payments, schedules, idem, mandates, window, queue,
                   gateway, audit, call, drain, cancelOp, rl, hook, monitor>>

\* ------------------------------------------ CardMonitorService.sync_card
\* card.bank_name values: two banks of BANK_API_CONFIGS and one without an
\* entry
Banks == {"hdfc", "sbi", "kotak"}
Configured == {"hdfc", "sbi"}

\* BANK_API_CONFIGS[bank]["rate_limit"]["requests_per_minute"], 30 when the
\* bank has no entry (lines 28-57, 534-536)
RequestsPerMinute(b) == IF b = "sbi" THEN 20 ELSE 30

\* BANK_API_CONFIGS[bank]["retry_attempts"]
RetryAttempts(b) == IF b = "sbi" THEN 4 ELSE 3

\* bank_rate: the values of the keys bank_rate:{bank}, 0 for a key that does
\* not exist (no statement of the repository writes these keys).
\* requests: how many requests each bank has received in the current minute.
IdleMonitor == [bank_rate |-> [b \in Banks |-> 0], requests |-> [b \in Banks |-> 0],
                syncs |-> 0, bank |-> "", error_code |-> ""]

\* _is_rate_limited (lines 529-538)
is_rate_limited_bank(b) == monitor.bank_rate[b] >= RequestsPerMinute(b)

\* sync_card (lines 95-175) for a card of bank b: the rate check, then
\* _make_api_request, which sends sent requests (between one and
\* retry_attempts) and returns data or None
sync_card(b, sent, ok) ==
    /\ monitor.syncs < MaxSyncs
    /\ sent \in 1..RetryAttempts(b)
    /\ monitor' =
          IF is_rate_limited_bank(b)
          THEN [monitor EXCEPT !.syncs = @ + 1, !.bank = b,
                               !.error_code = "RATE_LIMIT_EXCEEDED"]
          ELSE IF b \notin Configured
          THEN [monitor EXCEPT !.syncs = @ + 1, !.bank = b,
                               !.error_code = "BANK_NOT_SUPPORTED"]
          ELSE [monitor EXCEPT !.syncs = @ + 1, !.bank = b,
                               !.requests[b] = @ + sent,
                               !.error_code = IF ok THEN "none" ELSE "API_FAILURE"]
    /\ UNCHANGED <<now, cards, payments, schedules, idem, mandates, window, queue,
                   gateway, audit, call, drain, cancelOp, rl, api, hook>>

\* --------------------------------------------------------- specifications
PrefilledWindow == {<<0, i>> : i \in 1..PaymentMaxAttempts}

\* nothing paid, nothing in flight
InitIdle ==
    /\ payments = << >>
    /\ idem = {}
    /\ mandates = [c \in Cards |-> "none"]
    /\ gateway = {}
    /\ audit = {}
    /\ call = [t \in Tasks |-> IdleCall]
    /\ drain = [t \in Tasks |-> IdleDrain]
    /\ cancelOp = IdleCancel
    /\ api = IdleApi
    /\ hook = NoHook
    /\ monitor = IdleMonitor

InitCommon ==
    /\ now = 0
    /\ schedules = << >>
    /\ queue = {}
    /\ InitIdle

Init ==
    /\ InitCommon
    /\ cards \in [Cards -> CardProfiles]
    /\ window \in {[k \in {"payment", "key"} |-> IF k = "payment" THEN w ELSE {}] :
                      w \in {{}, PrefilledWindow}}
    /\ rl = [max_attempts |-> DefaultMaxAttempts, jumps |-> 0, calls |-> << >>]

\* the single worker of the specifications that run one
DrainWorker == CHOOSE t \in Tasks : \A u \in Tasks : t <= u

\* concurrent callers of process_minimum_payment, and the gateway's webhooks
NextPay ==
    \/ Tick
    \/ \E t \in Tasks, c \in Cards, k \in {NoKey, ExplicitKey},
          trig \in {"manual"} : pmp_CheckIdempotency(t, c, k, trig)
    \/ \E t \in Tasks : pmp_Step(t)
    \/ \E tx \in gateway : handle_payment_captured(tx)

Spec == Init /\ [][NextPay]_vars

\* the orchestrator against the payment endpoints and the webhooks
NextStatus ==
    \/ NextPay
    \/ \E pid \in 1..NumTasks : cancel_payment(pid)
    \/ \E pid \in 1..NumTasks, a \in UpdatedAmounts : update_payment(pid, a)

\* triggers for one card that carry no idempotency key (create_payment,
\* the drain), seconds apart
NextKey ==
    \/ NextSecond
    \/ \E t \in Tasks, c \in Cards, trig \in {"manual", "scheduled"} :
          pmp_CheckIdempotency(t, c, NoKey, trig)
    \/ \E t \in Tasks : pmp_Step(t)

\* webhook requests, genuine and forged, against one running payment
NextHook ==
    \/ \E c \in Cards : pmp_CheckIdempotency(DrainWorker, c, NoKey, "manual")
    \/ pmp_Step(DrainWorker)
    \/ \E form \in {"compact", "spaced"}, ev \in EventTypes,
          pid \in {tx.payment_id : tx \in gateway} \cup {0} :
          \E sig \in Signatures(<<form, ev, pid>>) :
              handle_webhook(<<form, ev, pid>>, sig)

\* the scheduled queue: scheduling, drain passes, cancellation
NextQueue ==
    \/ Tick
    \/ \E c \in Cards, when \in 1..MaxTime, amt \in ScheduledAmounts,
          r \in BOOLEAN : schedule_payment(c, when, amt, r)
    \/ \E t \in Tasks : process_scheduled_payments(t)
    \/ \E t \in Tasks : pmp_Step(t)

QueueProfiles ==
    {p \in CardProfiles : p.payment_preference # "full_amount"
                            /\ (p.payment_preference = "custom" => p.custom_payment_amount # 0)}

InitQueue ==
    /\ InitCommon
    /\ cards \in [Cards -> QueueProfiles]
    /\ window = [k \in {"payment", "key"} |-> {}]
    /\ rl = [max_attempts |-> DefaultMaxAttempts, jumps |-> 0, calls |-> << >>]

SpecQueue == InitQueue /\ [][NextQueue]_vars

SpecStatus == InitQueue /\ [][NextStatus]_vars

SpecKey == InitQueue /\ [][NextKey]_vars

SpecHook == InitQueue /\ [][NextHook]_vars

\* one drain pass over a queue that holds NumDue obligations, scheduled at
\* times before, at and after the moment the pass starts; automation may
\* have been switched off since they were scheduled
NextDrain ==
    \/ Tick
    \/ process_scheduled_payments(DrainWorker)
    \/ pmp_Step(DrainWorker)

Scheduled(dates) ==
    [i \in 1..NumDue |->
        [id |-> i, card_id |-> UuidId(1), scheduled_date |-> dates[i],
         scheduled_amount |-> 500, status |-> "scheduled",
         is_recurring |-> FALSE, payment_id |-> 0]]

Queued(rows) ==
    {[member |-> Member(rows[i].id, rows[i].card_id[2], rows[i].scheduled_date,
                        rows[i].scheduled_amount),
      score |-> IntTimestamp(rows[i].scheduled_date)] : i \in 1..Len(rows)}

DrainProfiles ==
    {p \in QueueProfiles : p.payment_preference = "minimum_due"} \cup
    {[p EXCEPT !.auto_payment_enabled = FALSE] :
        p \in {q \in QueueProfiles : q.payment_preference = "minimum_due"
                                        /\ q.minimum_due > 0}}

InitDrain ==
    /\ InitIdle
    /\ now \in 0..MaxDrainTime
    /\ \E dates \in [1..NumDue -> 1..(MaxDrainTime + 1)] :
          /\ \A i \in 1..(NumDue - 1) : dates[i] <= dates[i + 1]
          /\ schedules = Scheduled(dates)
    /\ queue = Queued(schedules)
    /\ cards \in [Cards -> DrainProfiles]
    /\ window = [k \in {"payment", "key"} |-> {}]
    /\ rl = [max_attempts |-> DefaultMaxAttempts, jumps |-> 0, calls |-> << >>]

SpecDrain == InitDrain /\ [][NextDrain]_vars

\* cancellation against one drain worker
NextCancel ==
    \/ Tick
    \/ \E c \in Cards, when \in 1..MaxTime, amt \in ScheduledAmounts,
          r \in BOOLEAN : schedule_payment(c, when, amt, r)
    \/ process_scheduled_payments(DrainWorker)
    \/ pmp_Step(DrainWorker)
    \/ \E sid \in 1..MaxSchedules : cancel_scheduled_payment(sid)
    \/ \E c \in Cards : disable_card_automation(c)
    \/ cancel_Zrange
    \/ cancel_Zrem
    \/ cancel_Commit

SpecCancel == InitQueue /\ [][NextCancel]_vars

\* the rate limiter on one key
InitRl ==
    /\ InitCommon
    /\ cards \in [Cards -> {CHOOSE p \in CardProfiles : TRUE}]
    /\ window = [k \in {"payment", "key"} |-> {}]
    /\ rl \in {[max_attempts |-> m, jumps |-> 0, calls |-> << >>] :
                  m \in {2, 3, DefaultMaxAttempts}}

NextRl ==
    \/ Tick
    \/ rl_Jump
    \/ \E fresh \in BOOLEAN : rl_Call(fresh)
    \/ \E applied \in BOOLEAN : rl_CallFailed(applied)

SpecRl == InitRl /\ [][NextRl]_vars

\* the retrying API client
NextApi ==
    \/ \E n \in 0..MaxRetry : api_Start(n)
    \/ \E r \in Responses : api_Attempt(r)

InitApi ==
    /\ InitCommon
    /\ cards \in [Cards -> {CHOOSE p \in CardProfiles : TRUE}]
    /\ window = [k \in {"payment", "key"} |-> {}]
    /\ rl = [max_attempts |-> DefaultMaxAttempts, jumps |-> 0, calls |-> << >>]

SpecApi == InitApi /\ [][NextApi]_vars

\* sync_card calls for cards of several banks within one minute
NextSync ==
    \E b \in Banks, sent \in 1..MaxRetry + 1, ok \in BOOLEAN : sync_card(b, sent, ok)

SpecSync == InitApi /\ [][NextSync]_vars

\* ================================================================ claims

RowsWithKey(k) == {i \in 1..Len(payments) : payments[i].idempotency_key = k}
CallersOf(k) == {t \in Tasks : call[t].pc # "idle" /\ call[t].key = k}

\* C1: once every one of the concurrent process_minimum_payment calls that
\* carry one idempotency key has returned successfully, exactly one Payment
\* row with that key exists and every call's result references that row.
C1_OneRowForConcurrentCalls ==
    \A k \in {call[t].key : t \in Tasks} :
        (/\ Cardinality(CallersOf(k)) > 1
         /\ \A t \in CallersOf(k) : call[t].pc = "done" /\ call[t].res.success)
        => /\ Cardinality(RowsWithKey(k)) = 1
           /\ \A t \in CallersOf(k) : call[t].res.payment_id \in RowsWithKey(k)

\* the drain passes that invoked process_minimum_payment for a schedule
Invoked(t, sid) ==
    \/ /\ drain[t].pc = "call"
       /\ Head(drain[t].due).schedule_id = sid
    \/ \E i \in 1..Len(drain[t].payments_processed) :
          drain[t].payments_processed[i].member.schedule_id = sid

\* C2: across all drain passes, process_minimum_payment is invoked at most
\* once for a queued obligation; two drains never both process one entry.
C2_QueueOnce ==
    \A sid \in 1..Len(schedules) :
        Cardinality({t \in Tasks : Invoked(t, sid)}) <= 1

Captured(pid) == [type |-> "PAYMENT_CAPTURED", id |-> pid, flag |-> TRUE] \in audit

\* C3: when a payment.captured webhook for a Payment has been handled and the
\* orchestrator's submission of that Payment has returned, the Payment's
\* status is COMPLETED.
C3_CapturedIsCompleted ==
    \A t \in Tasks :
        (call[t].pc = "done" /\ call[t].pid # 0 /\ Captured(call[t].pid))
        => payments[call[t].pid].status = "completed"

\* C4: at most one Payment row exists per idempotency key, in every state.
C4_OneRowPerKey ==
    \A i, j \in 1..Len(payments) :
        payments[i].idempotency_key = payments[j].idempotency_key => i = j

\* the first n limiter calls ran without store error, read distinct clock
\* values and lie inside one window
SameWindow(n) ==
    /\ n <= Len(rl.calls)
    /\ \A i \in 1..n : ~rl.calls[i].error
    /\ \A i, j \in 1..n : rl.calls[i].stamp = rl.calls[j].stamp => i = j
    /\ rl.calls[n].at - rl.calls[1].at < MinutesToTicks(RlWindowMinutes)

\* C5: with max_attempts = M, the (M+1)-th call on a key inside one window
\* returns true (limited).
C5_CallAfterMaxIsLimited ==
    SameWindow(rl.max_attempts + 1) => rl.calls[rl.max_attempts + 1].limited

\* C6: a 401 or 403 response ends _make_api_request at once with a failure:
\* it is the last request sent and no wait follows it.
C6_AuthErrorIsTerminal ==
    \A i \in 1..Len(api.responses) :
        api.responses[i] \in {"401", "403"}
        => /\ i = Len(api.responses)
           /\ api.sent = i
           /\ api.sleeps[i] = 0
           /\ api.pc = "done"
           /\ api.result = "none"

C6_Witness ==
    /\ api.pc = "done"
    /\ api.retry_attempts = MaxRetry
    /\ api.responses = <<"500", "403">>
    /\ api.sleeps = <<1, 0>>

AllTimeouts == \A i \in 1..Len(api.responses) : api.responses[i] = "timeout"

\* C7: _make_api_request sends at most retry_attempts requests and has
\* returned once they are used up; when every attempt timed out it has sent
\* exactly retry_attempts requests and returns a failure.
C7_BoundedAttempts ==
    /\ api.sent <= api.retry_attempts
    /\ api.pc = "loop" => api.sent < api.retry_attempts
    /\ (api.pc = "done" /\ AllTimeouts)
       => api.sent = api.retry_attempts /\ api.result = "none"

C7_Witness ==
    /\ api.pc = "done"
    /\ api.retry_attempts = MaxRetry
    /\ api.sent = MaxRetry
    /\ AllTimeouts
    /\ api.result = "none"

\* recurrence_type weekly / monthly, as clock ticks
RecurrenceIntervals == {HoursToTicks(7 * 24), HoursToTicks(30 * 24)}

RequestedRecurring(sid) ==
    [type |-> "PAYMENT_SCHEDULED", id |-> sid, flag |-> TRUE] \in audit

\* C8: after a drain pass has executed an obligation scheduled as recurring,
\* the queue holds its next occurrence at the previous scheduled time plus
\* the interval.
C8_RecurrenceReinserted ==
    \A t \in Tasks : \A i \in 1..Len(drain[t].payments_processed) :
        LET m == drain[t].payments_processed[i].member
        IN  RequestedRecurring(m.schedule_id)
            => \E e \in queue, I \in RecurrenceIntervals :
                  /\ e.member.card_id = m.card_id
                  /\ e.member.scheduled_date = m.scheduled_date + I
                  /\ e.score = IntTimestamp(m.scheduled_date + I)

\* the cancel request for sid was answered before its scheduled time, and
\* every drain pass so far started at or after that scheduled time
CancelledBeforeDue(sid) ==
    /\ \E c \in cancelOp.completed : c[1] = sid /\ c[2] < schedules[sid].scheduled_date
    /\ \A t \in Tasks : drain[t].pc # "idle" => drain[t].now >= schedules[sid].scheduled_date

\* a drain pass created a Payment row while executing schedule sid
PaymentCreatedFor(sid) ==
    \E t \in Tasks :
        \/ /\ drain[t].pc = "call"
           /\ Head(drain[t].due).schedule_id = sid
           /\ call[t].pid # 0
        \/ \E i \in 1..Len(drain[t].payments_processed) :
              /\ drain[t].payments_processed[i].member.schedule_id = sid
              /\ drain[t].payments_processed[i].payment_id # 0

\* C9: if the cancel of an obligation completed before its scheduled time T
\* with no drain pass in between, no later drain pass creates a Payment for
\* it and its status is cancelled.
C9_CancelledNeverPaid ==
    \A sid \in 1..Len(schedules) :
        CancelledBeforeDue(sid)
        => ~PaymentCreatedFor(sid) /\ schedules[sid].status = "cancelled"

\* C10: the Payment a drain pass creates for an obligation has the
\* obligation's scheduled amount.
C10_ScheduledAmountPaid ==
    \A t \in Tasks : \A i \in 1..Len(drain[t].payments_processed) :
        LET info == drain[t].payments_processed[i]
        IN  info.payment_id # 0
            => payments[info.payment_id].amount = info.member.scheduled_amount

\* the gateway accepted the submission of call t
Accepted(t) == call[t].outcome = "accepted"

\* C11: once the gateway has accepted a submission and the orchestrator has
\* written its answer, the Payment is in status PROCESSING and carries the
\* transaction reference; no Payment with a transaction reference is PENDING.
C11_AcceptedIsProcessing ==
    /\ \A t \in Tasks :
          (Accepted(t) /\ call[t].pc \in {"cache", "done"})
          => /\ payments[call[t].pid].transaction_id = call[t].tx
             /\ payments[call[t].pid].status = "processing"
    /\ \A i \in 1..Len(payments) :
          payments[i].transaction_id # 0 => payments[i].status # "pending"

\* the gateway submission of call t failed and the call has returned
GatewayFailed(t) ==
    call[t].pc = "done" /\ call[t].outcome \in {"rejected", "timeout"}

\* C15: after a failed gateway submission the Payment is FAILED and carries
\* an error code, and the code of an exhausted retryable failure (timeout)
\* differs from the code of a terminal rejection.
C15_GatewayFailureCoded ==
    /\ \A t \in Tasks :
          GatewayFailed(t)
          => /\ payments[call[t].pid].status = "failed"
             /\ payments[call[t].pid].error_code # ""
    /\ \A t, u \in Tasks :
          (GatewayFailed(t) /\ GatewayFailed(u) /\ call[t].outcome # call[u].outcome)
          => payments[call[t].pid].error_code # payments[call[u].pid].error_code

\* call t has sent its /payments request
Submitted(t) == call[t].outcome # ""

\* C17: every gateway submission is made against a mandate whose stored
\* status is active; none is made against a mandate still in status created.
C17_SubmitOnlyOnActiveMandate ==
    \A t \in Tasks : Submitted(t) => mandates[call[t].card] = "active"

\* the status changes section 2 of the specification allows
LegalTransitions ==
    { <<"pending", "processing">>, <<"processing", "completed">>,
      <<"processing", "failed">>, <<"pending", "failed">>,
      <<"pending", "cancelled">>, <<"processing", "cancelled">>,
      <<"completed", "refunded">> }

C13_CancelledNotExecuted ==
    \A r \in cancelOp.removed : r.raced => ~PaymentCreatedFor(r.sid)

\* the drain pass took the obligation of info out of the queue
RemovedFromQueue(info) == \A e \in queue : e.member # info.member

\* C14: every obligation a drain pass removed from the queue after attempting
\* it has a Payment row; when the attempt did not succeed that row is FAILED
\* and carries an error code.
C14_RemovedLeavesPayment ==
    \A t \in Tasks : \A i \in 1..Len(drain[t].payments_processed) :
        LET info == drain[t].payments_processed[i]
        IN  RemovedFromQueue(info)
            => /\ info.payment_id # 0
               /\ ~info.success
                  => /\ payments[info.payment_id].status = "failed"
                     /\ payments[info.payment_id].error_code # ""

\* the call returned after using up its attempts, the last one a retryable
\* failure
Exhausted ==
    /\ api.pc = "done"
    /\ api.retry_attempts > 0
    /\ api.sent = api.retry_attempts
    /\ api.responses[api.sent] \in {"500", "timeout", "network", "429",
                                     "429-no-header", "429-bad-header"}

\* C16: the value _make_api_request returns when its attempts are exhausted
\* differs from the value it returns for a terminal 401/403 rejection, so its
\* caller can tell the two apart.
C16_ExhaustionDistinguished == Exhausted => api.result # TerminalResult

\* C18: a call during which the store raised or the pipeline timed out
\* returns false (allowed), whatever count the key held.
C18_FailOpen ==
    \A i \in 1..Len(rl.calls) : rl.calls[i].error => ~rl.calls[i].limited

C18_Witness ==
    \E i \in 1..Len(rl.calls) :
        /\ rl.calls[i].error
        /\ rl.calls[i].prior > rl.max_attempts
        /\ ~rl.calls[i].limited

\* C19: calls on one key at the same instant are serialised and each is
\* counted: no two of them observe the same count.
C19_DistinctCounts ==
    \A i, j \in 1..Len(rl.calls) :
        (/\ i < j
         /\ ~rl.calls[i].error /\ ~rl.calls[j].error
         /\ rl.calls[i].at = rl.calls[j].at)
        => rl.calls[i].prior # rl.calls[j].prior

\* every call before the n-th is older than the window at the n-th
AllOlder(n) ==
    \A i \in 1..(n - 1) :
        rl.calls[i].at + MinutesToTicks(RlWindowMinutes) < rl.calls[n].at

\* C20: a call returns false when every earlier call on the key is older
\* than the window, however many there were and whether or not they were
\* limited.
C20_FreshWindowAllows ==
    \A n \in 1..Len(rl.calls) : AllOlder(n) => ~rl.calls[n].limited

C20_Witness ==
    \E n \in 1..Len(rl.calls) :
        /\ n > rl.max_attempts + 2
        /\ AllOlder(n)
        /\ \E i \in 1..(n - 1) : rl.calls[i].limited
        /\ ~rl.calls[n].error
        /\ rl.calls[n].prior = 0
        /\ ~rl.calls[n].limited

\* the Payment of some row with key k already has a gateway transaction
HasTransaction(k) ==
    \E i \in 1..Len(payments) :
        payments[i].idempotency_key = k /\ payments[i].transaction_id # 0

\* C22: a call that arrives with an idempotency key for which a gateway
\* transaction was already obtained goes no further than the lookup: it ends
\* at once, and when it answers success it names a Payment of that key.  It
\* therefore sends no gateway request, inserts no row and records no
\* rate-limit attempt.
C22_KeyWithTransactionIsReturned ==
    [][\A t \in Tasks :
          (/\ call[t].pc = "idle" /\ call'[t].pc # "idle"
           /\ call'[t].key = ExplicitKey
           /\ HasTransaction(call'[t].key))
          => /\ call'[t].pc = "done"
             /\ call'[t].res.success
                => call'[t].res.payment_id \in RowsWithKey(call'[t].key)
             /\ UNCHANGED <<payments, window, gateway>>]_vars

\* C24: an obligation that a drain pass has attempted, process_minimum_payment
\* having returned for it with success or failure, is no longer in the queue
\* (so that no later pass reads it again).
C24_AttemptedIsConsumed ==
    \A t \in Tasks : \A i \in 1..Len(drain[t].payments_processed) :
        RemovedFromQueue(drain[t].payments_processed[i])

\* the call returned a failure after its INSERT and before any gateway answer
FailedBeforeSubmission(t) ==
    /\ call[t].pc = "done"
    /\ ~call[t].res.success
    /\ call[t].pid # 0
    /\ call[t].outcome = ""

\* C27: when process_minimum_payment returns a failure after creating the
\* Payment row and before the gateway accepted it, the row is FAILED.
C27_RejectedBeforeSubmissionIsFailed ==
    \A t \in Tasks :
        FailedBeforeSubmission(t) => payments[call[t].pid].status = "failed"

\* /payments requests call t has sent: _make_razorpay_request has no loop
GatewayRequests(t) == IF call[t].outcome = "" THEN 0 ELSE 1

\* C30: a Payment is marked FAILED for a transient gateway failure only
\* after more than one attempt at the submission.
C30_TransientFailureRetried ==
    \A t \in Tasks :
        (/\ call[t].outcome = "timeout"
         /\ call[t].pid # 0
         /\ payments[call[t].pid].status = "failed")
        => GatewayRequests(t) > 1

\* call t starts in this step, finds no idempotency record and computes an
\* amount of 0 or less
EntersWithNothingDue(t) ==
    /\ call[t].pc = "idle" /\ call'[t].pc # "idle"
    /\ IdemRecords(call'[t].key) = {}
    /\ call'[t].res.code # "SYSTEM_ERROR"
    /\ calculate_payment_amount(cards[call'[t].card]) <= 0

\* C28: a call whose computed amount is 0 or less returns NO_PAYMENT_REQUIRED
\* and changes nothing: no Payment row, no rate-limit attempt, no idempotency
\* record, no gateway request.
C28_NothingDueChangesNothing ==
    [][\A t \in Tasks :
          EntersWithNothingDue(t)
          => /\ call'[t].pc = "done"
             /\ ~call'[t].res.success
             /\ call'[t].res.code = "NO_PAYMENT_REQUIRED"
             /\ call'[t].pid = 0 /\ call'[t].outcome = ""
             /\ UNCHANGED <<payments, window, idem, gateway, mandates, queue>>]_vars

C28_Witness ==
    \E t \in Tasks :
        /\ call[t].pc = "done"
        /\ call[t].res.code = "NO_PAYMENT_REQUIRED"
        /\ calculate_payment_amount(cards[call[t].card]) = 0
        /\ \E u \in Tasks : call[u].pc = "done" /\ call[u].res.code = "NO_PAYMENT_REQUIRED"
                              /\ u # t
        /\ payments = << >> /\ gateway = {} /\ idem = {}
        /\ window["payment"] = {}

\* call t derived its idempotency key itself
DerivedKey(t) == call[t].pc # "idle" /\ call[t].key[1] = "payment"

\* C29: two triggers for one card in one billing cycle (every instant of the
\* model lies in the same cycle) that supply no key derive the same key.
C29_DerivedKeyPerCycle ==
    \A t, u \in Tasks :
        (DerivedKey(t) /\ DerivedKey(u) /\ call[t].card = call[u].card)
        => call[t].key = call[u].key

\* C26: a cancel request for an obligation that a drain pass has already
\* executed is not answered with success.
C26_CancelAfterExecutionNotSuccess ==
    \A c \in cancelOp.completed : ~c[3]

\* the request carries no signature, or one that is not the gateway's keyed
\* digest of the body
Unverifiable(h) ==
    h.signature = NoSignature \/ h.signature # Hmac(WebhookSecret, Dumps(h.raw))

\* C21: a webhook whose signature is missing or does not verify is answered
\* success = false, no event handler runs, and no Payment, mandate, queue
\* entry or other record changes.
C21_UnverifiedWebhookRejected ==
    [][(hook' # hook /\ Unverifiable(hook'))
       => /\ ~hook'.success
          /\ hook'.handler = ""
          /\ UNCHANGED <<payments, mandates, queue, schedules, cards, idem,
                         gateway, audit>>]_vars

C21_Witness ==
    /\ hook.raw[2] = "payment.captured"
    /\ hook.raw[3] # 0
    /\ hook.signature = Hmac("other", Dumps(hook.raw))
    /\ ~hook.success
    /\ hook.handler = ""
    /\ payments[hook.raw[3]].status = "pending"
    /\ ~Captured(hook.raw[3])

\* the entries of its answer that the loop of pass t has been through
Passed(t) == SubSeq(drain[t].read, 1, Len(drain[t].read) - Len(drain[t].due))

Attempted(t, m) ==
    \E j \in 1..Len(drain[t].payments_processed) :
        drain[t].payments_processed[j].member = m

DueAt(m, t) == m.scheduled_date <= drain[t].now

ProducedPayment(sid) ==
    \E t \in Tasks : \E j \in 1..Len(drain[t].payments_processed) :
        /\ drain[t].payments_processed[j].member.schedule_id = sid
        /\ drain[t].payments_processed[j].payment_id # 0

\* C31: an obligation that has produced a Payment is stored as 'executed',
\* linked to that Payment, and no longer listed by get_scheduled_payments.
C31_ExecutedIsRecorded ==
    \A sid \in 1..Len(schedules) :
        ProducedPayment(sid)
        => /\ schedules[sid].status = "executed"
           /\ schedules[sid].payment_id # 0
           /\ sid \notin get_scheduled_payments

Is429(r) == r \in {"429", "429-no-header", "429-bad-header"}

\* the responses before the i-th that were not 429s
FailuresBefore(i) == Cardinality({j \in 1..(i - 1) : ~Is429(api.responses[j])})

\* C32: a 429 is followed by a wait of the server's Retry-After seconds (the
\* default when the header is absent) and takes no step of the exponential
\* schedule: the delay after a later failure is the one it would have been
\* without the 429.
C32_RetryAfterOutsideBackoff ==
    \A i \in 1..Len(api.responses) :
        /\ api.responses[i] = "429" => api.sleeps[i] = RetryAfterSeconds
        /\ api.responses[i] = "429-no-header" => api.sleeps[i] = DefaultRetryAfter
        /\ (~Is429(api.responses[i]) /\ api.sleeps[i] # 0)
           => api.sleeps[i] = Pow2(FailuresBefore(i))

\* C33: once the requests a bank has received in the current minute have
\* reached its requests_per_minute, sync_card answers RATE_LIMIT_EXCEEDED
\* and sends the bank nothing.
C33_BankQuotaKept ==
    [][(/\ monitor'.syncs # monitor.syncs
        /\ monitor.requests[monitor'.bank] >= RequestsPerMinute(monitor'.bank))
       => /\ monitor'.error_code = "RATE_LIMIT_EXCEEDED"
          /\ monitor'.requests = monitor.requests]_vars

\* the step on which DELETE /scheduled/{schedule_id} finishes its work on the
\* queue
CancelFinishes ==
    cancelOp.pc = "zrem" /\ cancelOp.kind = "cancel" /\ cancelOp'.pc = "idle"

\* C34: cancel_scheduled_payment(schedule_id) takes that obligation, and no
\* other, out of the queue.
C34_CancelRemovesOnlyThatOne ==
    [][CancelFinishes
       => queue' = {e \in queue : e.member.schedule_id # cancelOp.schedule}]_vars

RecentBefore(j) ==
    {rl.calls[i].stamp : i \in {k \in 1..(j - 1) :
        /\ ~rl.calls[k].error
        /\ rl.calls[k].at > rl.calls[j].at - MinutesToTicks(RlWindowMinutes)}}

\* C36: a call is recorded in the key's window whatever it answered: every
\* earlier call inside the window, limited ones included, is in the count a
\* later call observes, so a caller with more than max_attempts recorded
\* calls inside the window is refused again.
C36_LimitedCallsCount ==
    \A j \in 1..Len(rl.calls) :
        ~rl.calls[j].error
        => /\ rl.calls[j].prior >= Cardinality(RecentBefore(j))
           /\ Cardinality(RecentBefore(j)) > rl.max_attempts => rl.calls[j].limited

C36_Witness ==
    \E i, j \in 1..Len(rl.calls) :
        /\ i < j
        /\ ~rl.calls[i].error /\ ~rl.calls[j].error
        /\ rl.calls[i].limited
        /\ rl.calls[i].stamp \in RecentBefore(j)
        /\ rl.calls[j].prior = rl.calls[i].prior + 1
        /\ rl.calls[j].limited

\* every call so far answered, and all of them lie inside one window
AllInOneWindow ==
    /\ \A i \in 1..Len(rl.calls) : ~rl.calls[i].error
    /\ \A i, j \in 1..Len(rl.calls) :
          rl.calls[j].at - rl.calls[i].at < MinutesToTicks(RlWindowMinutes)

\* C37: after n calls on a key inside one window the window holds n entries,
\* also when calls carry the same timestamp value.
C37_OneEntryPerCall ==
    AllInOneWindow => Cardinality(window["key"]) = Len(rl.calls)

\* the drain pass of t hands the entry it is at to process_minimum_payment
DrainCalls(t) == drain[t].pc = "loop" /\ drain'[t].pc = "call"

C39_ResultsAddUp ==
    \A t \in Tasks :
        drain[t].pc = "done"
        => /\ drain[t].results.successful + drain[t].results.failed
                + drain[t].results.skipped = Len(drain[t].read)
           /\ drain[t].results.processed
                = drain[t].results.successful + drain[t].results.failed

\* C40: every idempotency record in the store names a Payment row that
\* exists, has the record's key and carries the record's gateway transaction
\* id, which the gateway accepted for that row.
C40_RecordHasItsRow ==
    \A r \in idem :
        /\ r.payment_id \in 1..Len(payments)
        /\ payments[r.payment_id].idempotency_key = r.key
        /\ r.transaction_id # 0
        /\ payments[r.payment_id].transaction_id = r.transaction_id
        /\ \E tx \in gateway : tx.id = r.transaction_id /\ tx.payment_id = r.payment_id

C40_Witness ==
    \E r \in idem :
        /\ r.key = ExplicitKey
        /\ Len(payments) = 2
        /\ \A i \in 1..2 : payments[i].idempotency_key = r.key
        /\ r.payment_id = 2
        /\ payments[2].transaction_id = r.transaction_id
        /\ payments[1].transaction_id # 0

====
